---- MODULE Spec2Model ----
(***************************************************************************)
(* Automated sticker placement: box detection, orientation estimation,     *)
(* sticker position search, decal compositing and the batch driver.        *)
(*                                                                         *)
(* Numbers.  Pixel coordinates that the code keeps as floats (the centre   *)
(* and the size of a rotated rectangle) are fixed-point here, SubPix       *)
(* sub-units to the pixel.  The rotation of a rectangle is drawn from      *)
(* AngleTable, whose cosines and sines are exact rationals c/d and s/d, so *)
(* that cv2.boxPoints is computed exactly; every int() / np.int0           *)
(* conversion is the truncation toward zero the code performs.  Floating   *)
(* point rounding error is not modelled.                                   *)
(***************************************************************************)
EXTENDS Integers, Sequences, FiniteSets, TLC

VARIABLES
    \* the geometry stage of process_image
    rect,        \* the rectangle descriptor handed to the estimators
    offset,      \* offset_percent, in hundredths
    angle,       \* calculate_orientation's result
    pos,         \* calculate_sticker_position's result
    gpc,         \* position in process_image's geometry stage
    \* detection on one image
    contours,    \* what cv2.findContours returned, in its order
    det,         \* detect_box's result
    presult,     \* process_image's result on that image
    dpc,         \* "image", then "detected" or "processed"
    \* process_directory
    files,       \* the image files of input_dir, in directory order
    foldCase,    \* the platform's glob matches extensions case-insensitively
    decalFile,   \* the default sticker file under stickers/
    imageFiles,  \* image_files: indices into files, in processing order
    idx,         \* the next element of image_files
    outputs,     \* the annotated files present in output_dir (by input file)
    skipReports, \* "Error: Could not read image" lines printed
    missReports, \* "Warning: No box detected" lines printed
    bpc,         \* "start", "loop", "done" or "raised"
    \* compositing
    canvas,      \* the image drawn on: its size and its pixels
    sticker,     \* what sticker_path leads to
    stickerPath, \* annotate_image's sticker_path is given (not None, not "")
    opos,        \* the target position
    oangle,      \* the rotation: 0 for None, else an index of AngleTable
    oscale,      \* the scale factor, in tenths
    ores,        \* how the call ended and what it did
    opc          \* "ready", then "done"

gvars == <<rect, offset, angle, pos, gpc>>
dvars == <<contours, det, presult, dpc>>
bvars == <<files, foldCase, decalFile, imageFiles, idx, outputs, skipReports,
           missReports, bpc>>
ovars == <<canvas, sticker, stickerPath, opos, oangle, oscale, ores, opc>>

----------------------------------------------------------------------------
(* Bounds of the model *)

SubPix == 2
MaxCenter == 5
MaxSize == 8
MaxContours == 3
MaxFiles == 3
MaxCanvas == 2
MaxDecal == 2
MaxPos == 2

----------------------------------------------------------------------------
(* Arithmetic helpers *)

Abs(n) == IF n < 0 THEN -n ELSE n

\* int(a / b) for b > 0: Python's int() and numpy's integer casts truncate
\* toward zero.
Trunc(a, b) == IF a >= 0 THEN a \div b ELSE -((-a) \div b)

Min2(a, b) == IF a < b THEN a ELSE b
Max2(a, b) == IF a > b THEN a ELSE b

----------------------------------------------------------------------------
(* Rotated rectangles: ((cx, cy), (w, h), angle) *)

\* Rotations with rational cosine c/d and sine s/d; deg is the raw fitted
\* angle in (rounded) degrees.
AngleTable ==
    << [deg |-> 0,    c |-> 1,  s |-> 0,  d |-> 1],
       [deg |-> 90,   c |-> 0,  s |-> 1,  d |-> 1],
       [deg |-> -90,  c |-> 0,  s |-> -1, d |-> 1],
       [deg |-> 37,   c |-> 4,  s |-> 3,  d |-> 5],
       [deg |-> 53,   c |-> 3,  s |-> 4,  d |-> 5],
       [deg |-> -37,  c |-> 4,  s |-> -3, d |-> 5],
       [deg |-> 127,  c |-> -3, s |-> 4,  d |-> 5],
       [deg |-> 270,  c |-> 0,  s |-> -1, d |-> 1] >>

Angles == 1..Len(AngleTable)

SmallRects ==
    [cx : 0..MaxCenter, cy : 0..MaxCenter, w : 0..MaxSize, h : 0..MaxSize,
     ang : Angles]

\* The rectangles of the spec's worked examples: the 80x80 square centred
\* (100,100), the 100x50 and the 50x100 box, raw angle 0.
ExampleSquare ==
    [cx |-> 100 * SubPix, cy |-> 100 * SubPix, w |-> 80 * SubPix,
     h |-> 80 * SubPix, ang |-> 1]

ExampleWide ==
    [cx |-> 100 * SubPix, cy |-> 100 * SubPix, w |-> 100 * SubPix,
     h |-> 50 * SubPix, ang |-> 1]

ExampleTall ==
    [cx |-> 100 * SubPix, cy |-> 100 * SubPix, w |-> 50 * SubPix,
     h |-> 100 * SubPix, ang |-> 1]

Rects == SmallRects \cup {ExampleSquare, ExampleWide, ExampleTall}

\* cv2.boxPoints: b = cos/2, a = sin/2,
\*   pt0 = (cx - a*h - b*w, cy + b*h - a*w), pt1 = (cx + a*h - b*w, cy - b*h - a*w),
\*   pt2 = 2*center - pt0, pt3 = 2*center - pt1.
\* Each coordinate is the numerator over BoxDen(r) pixels.
BoxDen(r) == 2 * AngleTable[r.ang].d * SubPix

BoxPointsNum(r) ==
    LET t == AngleTable[r.ang]
        X == 2 * t.d * r.cx
        Y == 2 * t.d * r.cy
    IN  << <<X - t.s * r.h - t.c * r.w, Y + t.c * r.h - t.s * r.w>>,
           <<X + t.s * r.h - t.c * r.w, Y - t.c * r.h - t.s * r.w>>,
           <<X + t.s * r.h + t.c * r.w, Y - t.c * r.h + t.s * r.w>>,
           <<X - t.s * r.h + t.c * r.w, Y + t.c * r.h + t.s * r.w>> >>

\* get_box_corners: np.int0(cv2.boxPoints(rect)), integer corners.
get_box_corners(r) ==
    LET n == BoxPointsNum(r)
    IN  [i \in 1..4 |-> <<Trunc(n[i][1], BoxDen(r)), Trunc(n[i][2], BoxDen(r))>>]

\* get_box_center: (int(cx), int(cy)).
get_box_center(r) == <<Trunc(r.cx, SubPix), Trunc(r.cy, SubPix)>>

\* "rect is None".
NoRect == [absent |-> TRUE]

----------------------------------------------------------------------------
(* Orientation estimator: src/src/orientation.py *)

\* tan(k degrees) * 10000 for k = 1..89.
TanTable ==
    << 175, 349, 524, 699, 875, 1051, 1228, 1405, 1584, 1763, 1944, 2126,
       2309, 2493, 2679, 2867, 3057, 3249, 3443, 3640, 3839, 4040, 4245,
       4452, 4663, 4877, 5095, 5317, 5543, 5774, 6009, 6249, 6494, 6745,
       7002, 7265, 7536, 7813, 8098, 8391, 8693, 9004, 9325, 9657, 10000,
       10355, 10724, 11106, 11504, 11918, 12349, 12799, 13270, 13764, 14281,
       14826, 15399, 16003, 16643, 17321, 18040, 18807, 19626, 20503, 21445,
       22460, 23559, 24751, 26051, 27475, 29042, 30777, 32709, 34874, 37321,
       40108, 43315, 47046, 51446, 56713, 63138, 71154, 81443, 95144, 114301,
       143007, 190811, 286363, 572900 >>

\* The angle of (x, y), x >= 0, y >= 0, in whole degrees (rounded down), 0..90.
AcuteDeg(y, x) ==
    IF x = 0
    THEN IF y = 0 THEN 0 ELSE 90
    ELSE Cardinality({k \in 1..89 : y * 10000 >= TanTable[k] * x})

\* np.degrees(np.arctan2(y, x)), in whole degrees, in -180..180.
ArcTan2Deg(y, x) ==
    LET q == AcuteDeg(Abs(y), Abs(x))
    IN  IF y >= 0
        THEN IF x >= 0 THEN q ELSE 180 - q
        ELSE IF x >= 0 THEN -q ELSE -(180 - q)

\* edge_vec = corners[(i + 1) % 4] - corners[i], i = 0..3 (here 1..4).
EdgeVec(box, i) ==
    LET j == (i % 4) + 1
    IN  <<box[j][1] - box[i][1], box[j][2] - box[i][2]>>

\* The square of np.linalg.norm.
NormSq(v) == v[1] * v[1] + v[2] * v[2]

\* The first edge of the corner order, whatever its length.
LongestEdge_First(box) == EdgeVec(box, 1)

\* max(edges, key=length): the first edge of greatest length.
LongestEdge(box) ==
    LET i == CHOOSE i \in 1..4 :
                 /\ \A j \in 1..4 : NormSq(EdgeVec(box, j)) <= NormSq(EdgeVec(box, i))
                 /\ \A j \in 1..(i - 1) : NormSq(EdgeVec(box, j)) < NormSq(EdgeVec(box, i))
    IN  EdgeVec(box, i)

\* NormalizeEdgeAngle with only the absolute value taken: no fold of an
\* obtuse angle, no clamp.
NormalizeEdgeAngle_AbsOnly(a) == IF a < 0 THEN Abs(a) ELSE a

\* NormalizeEdgeAngle without the absolute value: a negative angle is
\* clamped to 0.
NormalizeEdgeAngle_NoAbs(a) ==
    LET a2 == IF a > 90 THEN 180 - a ELSE a
    IN  Max2(0, Min2(90, a2))

\* Lines 53-61: abs if negative, 180 - x if above 90, clamp into [0, 90].
NormalizeEdgeAngle(a) ==
    LET a1 == IF a < 0 THEN Abs(a) ELSE a
        a2 == IF a1 > 90 THEN 180 - a1 ELSE a1
    IN  Max2(0, Min2(90, a2))

\* Lines 67-70: the raw-angle fallback.
NormalizeRawAngle(a) ==
    LET n == Abs(a)
    IN  IF n > 90 THEN 90 - (n - 90) ELSE n

NoAngle == [kind |-> "none", deg |-> 0]

\* calculate_orientation.  get_box_corners returns None only for an absent
\* rectangle, which line 22 has already returned on.
calculate_orientation(r) ==
    IF r = NoRect
    THEN NoAngle
    ELSE IF r # NoRect
         THEN LET e == LongestEdge(get_box_corners(r))
              IN  [kind |-> "corners", deg |-> NormalizeEdgeAngle(ArcTan2Deg(e[2], e[1]))]
         ELSE [kind |-> "raw", deg |-> NormalizeRawAngle(AngleTable[r.ang].deg)]

----------------------------------------------------------------------------
(* Placement solver: src/src/sticker_position.py *)

NumCandidates == 30
MinRatio == 5

\* cv2.pointPolygonTest(box, pt, True) on integer corners and an integer
\* point: the sign of the result (1 inside, 0 on the boundary, -1 outside).
\* EdgeDistZero: the squared distance of pt to the edge v0 -> v is zero.
EdgeDistZero(v0, v, pt) ==
    LET dx == v[1] - v0[1]
        dy == v[2] - v0[2]
        dx1 == pt[1] - v0[1]
        dy1 == pt[2] - v0[2]
        dx2 == pt[1] - v[1]
        dy2 == pt[2] - v[2]
    IN  IF dx1 * dx + dy1 * dy <= 0
        THEN dx1 * dx1 + dy1 * dy1 = 0
        ELSE IF dx2 * dx + dy2 * dy >= 0
             THEN dx2 * dx2 + dy2 * dy2 = 0
             ELSE dy1 * dx - dx1 * dy = 0

\* The edge v0 -> v adds one to the crossing counter.
EdgeCrosses(v0, v, pt) ==
    LET dx == v[1] - v0[1]
        dy == v[2] - v0[2]
        dx1 == pt[1] - v0[1]
        dy1 == pt[2] - v0[2]
        num == dy1 * dx - dx1 * dy
    IN  /\ ~((v0[2] <= pt[2] /\ v[2] <= pt[2]) \/ (v0[2] > pt[2] /\ v[2] > pt[2]))
        /\ (IF dy < 0 THEN -num ELSE num) > 0

\* The edge that ends at corner i starts at the corner before it.
PrevCorner(i) == IF i = 1 THEN 4 ELSE i - 1

pointPolygonTest(box, pt) ==
    IF \E i \in 1..4 : EdgeDistZero(box[PrevCorner(i)], box[i], pt)
    THEN 0
    ELSE IF Cardinality({i \in 1..4 : EdgeCrosses(box[PrevCorner(i)], box[i], pt)}) % 2 = 0
         THEN -1
         ELSE 1

\* np.argmin(corners[:, 1]): the first corner of least y.
TopCornerIdx(box) ==
    CHOOSE i \in 1..4 :
        /\ \A j \in 1..4 : box[i][2] <= box[j][2]
        /\ \A j \in 1..(i - 1) : box[j][2] > box[i][2]

\* direction = top_corner - center_pt
Direction(r) ==
    LET box == get_box_corners(r)
        c == get_box_center(r)
        t == box[TopCornerIdx(box)]
    IN  <<t[1] - c[1], t[2] - c[2]>>

\* np.linspace(offset_percent, 0.05, 30)[i], i = 0..29, as the numerator
\* over RatioDen: offset_percent + i * (0.05 - offset_percent) / 29.
RatioDen == 100 * (NumCandidates - 1)

\* The ratios taken from 0.05 to offset_percent.
RatioNum_FromMin(p, i) == (NumCandidates - 1) * MinRatio + i * (p - MinRatio)

RatioNum(p, i) == (NumCandidates - 1) * p + i * (MinRatio - p)

\* Candidate with the ratios taken from the far end of the sequence.
Candidate_Reversed(r, p, i) ==
    LET c == get_box_center(r)
        d == Direction(r)
        k == NumCandidates - 1 - i
    IN  <<Trunc(c[1] * RatioDen + d[1] * RatioNum(p, k), RatioDen),
          Trunc(c[2] * RatioDen + d[2] * RatioNum(p, k), RatioDen)>>

\* candidate = center_pt + direction * offset_ratio, then int() of each
\* coordinate.
Candidate(r, p, i) ==
    LET c == get_box_center(r)
        d == Direction(r)
    IN  <<Trunc(c[1] * RatioDen + d[1] * RatioNum(p, i), RatioDen),
          Trunc(c[2] * RatioDen + d[2] * RatioNum(p, i), RatioDen)>>

NoPos == [path |-> "none", x |-> 0, y |-> 0, tried |-> 0]

\* The loop of lines 64-76 from candidate i on, and the final fallback of
\* line 80.  tried counts the candidates tested.
RECURSIVE SearchFrom(_, _, _)
SearchFrom(r, p, i) ==
    IF i = NumCandidates
    THEN LET c == get_box_center(r)
         IN  [path |-> "fallback", x |-> c[1], y |-> c[2], tried |-> i]
    ELSE LET cand == Candidate(r, p, i)
         IN  IF pointPolygonTest(get_box_corners(r), cand) >= 0
             THEN [path |-> "accepted", x |-> cand[1], y |-> cand[2], tried |-> i + 1]
             ELSE SearchFrom(r, p, i + 1)

\* direction_length < 1
IsDegenerate(r) == NormSq(Direction(r)) < 1

\* calculate_sticker_position without the degenerate-case return.
calculate_sticker_position_NoDegenerate(r, p) ==
    IF r = NoRect THEN NoPos ELSE SearchFrom(r, p, 0)

calculate_sticker_position(r, p) ==
    IF r = NoRect
    THEN NoPos
    ELSE IF IsDegenerate(r)
         THEN LET c == get_box_center(r)
              IN  [path |-> "degenerate", x |-> c[1], y |-> c[2], tried |-> 0]
         ELSE SearchFrom(r, p, 0)

----------------------------------------------------------------------------
(* Rectangle extractor: src/src/detect_box.py *)

MinArea == 1000

\* A contour, as far as find_box_contour looks at it: cv2.contourArea and
\* the number of vertices of its cv2.approxPolyDP approximation.
AreaValues == {500, MinArea, MinArea + 1, 2 * MinArea}
VertexCounts == {3, 4, 5}
Contour == [area : AreaValues, nv : VertexCounts]

RECURSIVE SeqsUpTo(_, _)
SeqsUpTo(S, n) ==
    IF n = 0
    THEN {<<>>}
    ELSE LET shorter == SeqsUpTo(S, n - 1)
         IN  shorter \cup {Append(q, x) : q \in {t \in shorter : Len(t) = n - 1}, x \in S}

ContourLists == SeqsUpTo(Contour, MaxContours)

\* Where contour i of cs stands in sorted(contours, key=cv2.contourArea,
\* reverse=True): the sort is stable, equal areas keep their order.
SortedRank(cs, i) ==
    1 + Cardinality({j \in 1..Len(cs) :
                        \/ cs[j].area > cs[i].area
                        \/ (cs[j].area = cs[i].area /\ j < i)})

\* The sorted list, as indices into cs.
SortedByArea(cs) ==
    [k \in 1..Len(cs) |-> CHOOSE i \in 1..Len(cs) : SortedRank(cs, i) = k]

\* Qualifies with the threshold itself accepted.
Qualifies_AtLeast(c) == c.nv = 4 /\ c.area >= MinArea

\* len(approx) == 4 and area > 1000
Qualifies(c) == c.nv = 4 /\ c.area > MinArea

\* The loop of lines 52-62 from position k of the sorted list on, then the
\* fallback of line 65.  The result is an index into cs; 0 is None.
RECURSIVE ScanFrom(_, _, _)
ScanFrom(cs, sorted, k) ==
    IF k > Len(sorted)
    THEN sorted[1]
    ELSE IF Qualifies(cs[sorted[k]])
         THEN sorted[k]
         ELSE ScanFrom(cs, sorted, k + 1)

\* find_box_contour without the fallback to the largest contour.
find_box_contour_NoFallback(cs) ==
    IF Len(cs) = 0 \/ ~\E i \in 1..Len(cs) : Qualifies(cs[i])
    THEN 0
    ELSE ScanFrom(cs, SortedByArea(cs), 1)

find_box_contour(cs) ==
    IF Len(cs) = 0 THEN 0 ELSE ScanFrom(cs, SortedByArea(cs), 1)

\* get_min_area_rect: None for no contour, else cv2.minAreaRect's rectangle.
get_min_area_rect(k) == k # 0

\* detect_box: (contour, rect, edges); rect says whether a rectangle came back.
detect_box(cs) ==
    LET k == find_box_contour(cs)
    IN  [contour |-> k, rect |-> IF k # 0 THEN get_min_area_rect(k) ELSE FALSE]

NoDet == [contour |-> 0, rect |-> FALSE]

----------------------------------------------------------------------------
(* process_image: src/src/process_image.py, lines 247-318 *)

\* int(n * scale), scale in tenths.
ScaledDim(n, scale10) == Trunc(n * scale10, 10)

\* cv2.resize raises when the target width or height is 0.
ResizeRaises(w, h, scale10) ==
    scale10 # 10 /\ (ScaledDim(w, scale10) = 0 \/ ScaledDim(h, scale10) = 0)

\* annotate_image passes scale=0.3 to overlay_sticker_image.
AnnotateScale == 3

\* The default decal: no file under stickers/, a file cv2.imread cannot
\* decode, or an image of w x h pixels.
DecalFiles ==
    { [kind |-> "missing", w |-> 0, h |-> 0],
      [kind |-> "unreadable", w |-> 0, h |-> 0],
      [kind |-> "image", w |-> 200, h |-> 80],
      [kind |-> "image", w |-> 3, h |-> 40] }

\* An input file: whether cv2.imread decodes it, the contours of its edge
\* map, and whether its extension is written in upper case.
ImageFile == [decodable : BOOLEAN, contours : ContourLists, upper : BOOLEAN]

NoResult == [kind |-> "pending", report |-> "none", written |-> FALSE]

\* process_image without the "image is None" return: the undecoded image
\* reaches cv2.cvtColor, which raises.
process_image_NoDecodeCheck(f, decal, outputDir) ==
    IF ~f.decodable
    THEN [kind |-> "raised", report |-> "none", written |-> FALSE]
    ELSE IF ~detect_box(f.contours).rect
         THEN [kind |-> "none", report |-> "nobox", written |-> FALSE]
         ELSE IF decal.kind = "image" /\ ResizeRaises(decal.w, decal.h, AnnotateScale)
              THEN [kind |-> "raised", report |-> "none", written |-> FALSE]
              ELSE [kind |-> "results", report |-> "none", written |-> outputDir]

\* process_image(image_path, output_dir, sticker_path=None).  kind is
\* "none" (return None), "results" (the dictionary) or "raised" (an
\* exception left the function, which has no handler).
process_image(f, decal, outputDir) ==
    IF ~f.decodable
    THEN [kind |-> "none", report |-> "unreadable", written |-> FALSE]
    ELSE IF ~detect_box(f.contours).rect
         THEN [kind |-> "none", report |-> "nobox", written |-> FALSE]
         ELSE IF decal.kind = "image" /\ ResizeRaises(decal.w, decal.h, AnnotateScale)
              THEN [kind |-> "raised", report |-> "none", written |-> FALSE]
              ELSE [kind |-> "results", report |-> "none", written |-> outputDir]

----------------------------------------------------------------------------
(* Compositor: src/src/process_image.py, lines 52-244 *)

\* One colour channel of a pixel, 0..255.  MarkerValue is the red channel of
\* the marker colour (0, 0, 255).
MarkerValue == 255
DiscRadius == 8
RingRadius == 12

Coords(w, h) == (0..(w - 1)) \X (0..(h - 1))

\* The canvas before the call.
InitialPixel(x, y) == 40 + 10 * x + 3 * y

InitialCanvas(w, h) ==
    [w |-> w, h |-> h, px |-> [c \in Coords(w, h) |-> InitialPixel(c[1], c[2])]]

\* Decal rasters: the colour and the alpha of pixel (i, j) are given by the
\* name of a pattern.
ColorPatterns == {"ramp", "flat"}
AlphaPatterns == {"opaque", "clear", "mixed"}

PatternColor(name, i, j) ==
    IF name = "ramp" THEN 200 - 20 * i - 7 * j ELSE 90

PatternAlpha(name, i, j) ==
    CASE name = "opaque" -> 255
      [] name = "clear" -> 0
      [] OTHER -> IF (i + j) % 3 = 0 THEN 128 ELSE IF (i + j) % 3 = 1 THEN 255 ELSE 0

MissingDecal == [kind |-> "missing", w |-> 0, h |-> 0, ch |-> 0,
                 color |-> "flat", alpha |-> "opaque"]

UnreadableDecal == [kind |-> "unreadable", w |-> 0, h |-> 0, ch |-> 0,
                    color |-> "flat", alpha |-> "opaque"]

\* A sticker large enough to survive annotate_image's scaling by 0.3.
LargeDecal == [kind |-> "image", w |-> 7, h |-> 4, ch |-> 4,
               color |-> "ramp", alpha |-> "opaque"]

Decals ==
    {MissingDecal, UnreadableDecal, LargeDecal}
        \cup [kind : {"image"}, w : 1..MaxDecal, h : 1..MaxDecal, ch : {4},
              color : {"ramp"}, alpha : AlphaPatterns]
        \cup [kind : {"image"}, w : 1..MaxDecal, h : 1..MaxDecal, ch : {3},
              color : {"ramp"}, alpha : {"opaque"}]

NoPosition == [given |-> FALSE, x |-> 0, y |-> 0]

\* Positions far enough from the canvas for the disc and the ring of the
\* marker to miss some or all of its pixels.
FarPositions ==
    { [given |-> TRUE, x |-> 12, y |-> 0], [given |-> TRUE, x |-> 9, y |-> 1],
      [given |-> TRUE, x |-> -10, y |-> -6] }

Positions ==
    {NoPosition} \cup FarPositions
        \cup [given : {TRUE}, x : (-MaxPos)..MaxPos, y : (-MaxPos)..MaxPos]

\* (angle, scale) of a call: None or an entry of AngleTable; scale in tenths.
OverlayAngles == {0, 1, 4}
OverlayScales == {10, 5}

NoPlace ==
    [x1 |-> 0, y1 |-> 0, x2 |-> 0, y2 |-> 0,
     roi_x1 |-> 0, roi_y1 |-> 0, roi_x2 |-> 0, roi_y2 |-> 0,
     sticker_x1 |-> 0, sticker_y1 |-> 0, sticker_x2 |-> 0, sticker_y2 |-> 0,
     sw |-> 0, sh |-> 0, outside |-> FALSE]

NoOverlay == [status |-> "pending", ops |-> {}, draws |-> <<>>, place |-> NoPlace]

\* cv2.circle(image, (sx, sy), 8, red, -1) and cv2.circle(image, (sx, sy),
\* 12, red, 2): the pixels of the filled disc and of the ring of thickness 2,
\* taken as the Euclidean disc and annulus (OpenCV's raster may differ from
\* them by a pixel on the rim).
InMarker(x, y, p) ==
    LET d2 == (x - p.x) * (x - p.x) + (y - p.y) * (y - p.y)
    IN  \/ d2 <= DiscRadius * DiscRadius
        \/ /\ d2 >= (RingRadius - 1) * (RingRadius - 1)
           /\ d2 <= (RingRadius + 1) * (RingRadius + 1)

MarkerDraws(p) ==
    << [shape |-> "circle", x |-> p.x, y |-> p.y, radius |-> DiscRadius, thickness |-> -1],
       [shape |-> "circle", x |-> p.x, y |-> p.y, radius |-> RingRadius, thickness |-> 2] >>

\* The marker without its ring.
DrawMarker_DiscOnly(cv, p) ==
    [canvas |-> [cv EXCEPT !.px = [c \in Coords(cv.w, cv.h) |->
                      IF (c[1] - p.x) * (c[1] - p.x) + (c[2] - p.y) * (c[2] - p.y)
                            <= DiscRadius * DiscRadius
                      THEN MarkerValue ELSE cv.px[c]]],
     status |-> "returned", ops |-> {"marker"}, draws |-> <<MarkerDraws(p)[1]>>,
     place |-> NoPlace]

\* Lines 73-76 and 82-85, and 227-229: the fallback marker.
DrawMarker(cv, p) ==
    [canvas |-> [cv EXCEPT !.px = [c \in Coords(cv.w, cv.h) |->
                      IF InMarker(c[1], c[2], p) THEN MarkerValue ELSE cv.px[c]]],
     status |-> "returned", ops |-> {"marker"}, draws |-> MarkerDraws(p),
     place |-> NoPlace]

\* Lines 88-91: cv2.resize to (int(w * scale), int(h * scale)); the pixels
\* are what the interpolation gives (color, alpha).
Resized(st, scale10, color, alpha) ==
    IF scale10 # 10
    THEN [st EXCEPT !.w = ScaledDim(st.w, scale10), !.h = ScaledDim(st.h, scale10),
                    !.color = color, !.alpha = alpha]
    ELSE st

\* angle is not None and angle != 0
Rotates(k) == k # 0 /\ AngleTable[k].deg # 0

\* Lines 94-128: new_w = int(h * |sin| + w * |cos|), new_h = int(h * |cos|
\* + w * |sin|); the pixels are what cv2.warpAffine gives (color, alpha).
Rotated(st, k, color, alpha) ==
    IF Rotates(k)
    THEN LET t == AngleTable[k]
         IN  [st EXCEPT !.w = Trunc(st.h * Abs(t.s) + st.w * Abs(t.c), t.d),
                        !.h = Trunc(st.h * Abs(t.c) + st.w * Abs(t.s), t.d),
                        !.color = color, !.alpha = alpha]
    ELSE st

\* A placement that puts the top-left corner of the sticker, not its
\* centre, on the position.
Placement_TopLeft(st, p, cv) ==
    LET x1 == p.x
        y1 == p.y
        x2 == x1 + st.w
        y2 == y1 + st.h
        roi_x1 == Max2(0, x1)
        roi_y1 == Max2(0, y1)
        roi_x2 == Min2(cv.w, x2)
        roi_y2 == Min2(cv.h, y2)
    IN  [x1 |-> x1, y1 |-> y1, x2 |-> x2, y2 |-> y2,
         roi_x1 |-> roi_x1, roi_y1 |-> roi_y1, roi_x2 |-> roi_x2, roi_y2 |-> roi_y2,
         sticker_x1 |-> Max2(0, -x1), sticker_y1 |-> Max2(0, -y1),
         sticker_x2 |-> Max2(0, -x1) + (roi_x2 - roi_x1),
         sticker_y2 |-> Max2(0, -y1) + (roi_y2 - roi_y1),
         sw |-> st.w, sh |-> st.h,
         outside |-> (x2 < 0 \/ y2 < 0 \/ x1 >= cv.w \/ y1 >= cv.h)]

\* A placement whose canvas region is the whole rectangle of the sticker,
\* not clipped to the canvas.
Placement_Unclipped(st, p, cv) ==
    LET x1 == p.x - (st.w \div 2)
        y1 == p.y - (st.h \div 2)
        x2 == x1 + st.w
        y2 == y1 + st.h
    IN  [x1 |-> x1, y1 |-> y1, x2 |-> x2, y2 |-> y2,
         roi_x1 |-> x1, roi_y1 |-> y1, roi_x2 |-> x2, roi_y2 |-> y2,
         sticker_x1 |-> 0, sticker_y1 |-> 0,
         sticker_x2 |-> st.w, sticker_y2 |-> st.h,
         sw |-> st.w, sh |-> st.h,
         outside |-> (x2 < 0 \/ y2 < 0 \/ x1 >= cv.w \/ y1 >= cv.h)]

\* Lines 131-165: where the sticker goes and what is clipped.
Placement(st, p, cv) ==
    LET x1 == p.x - (st.w \div 2)
        y1 == p.y - (st.h \div 2)
        x2 == x1 + st.w
        y2 == y1 + st.h
        clip_x1 == Max2(0, -x1)
        clip_y1 == Max2(0, -y1)
        roi_x1 == Max2(0, x1)
        roi_y1 == Max2(0, y1)
        roi_x2 == Min2(cv.w, x2)
        roi_y2 == Min2(cv.h, y2)
    IN  [x1 |-> x1, y1 |-> y1, x2 |-> x2, y2 |-> y2,
         roi_x1 |-> roi_x1, roi_y1 |-> roi_y1, roi_x2 |-> roi_x2, roi_y2 |-> roi_y2,
         sticker_x1 |-> clip_x1, sticker_y1 |-> clip_y1,
         sticker_x2 |-> clip_x1 + (roi_x2 - roi_x1),
         sticker_y2 |-> clip_y1 + (roi_y2 - roi_y1),
         sw |-> st.w, sh |-> st.h,
         outside |-> (x2 < 0 \/ y2 < 0 \/ x1 >= cv.w \/ y1 >= cv.h)]

\* A blend with the weights of background and foreground exchanged.
Blend_Swapped(b, f, a) == (b * a + f * (255 - a)) \div 255

\* Line 176 and 177: background * (1 - alpha) + foreground * alpha with
\* alpha = a / 255, cut to an integer by astype(np.uint8).
Blend(b, f, a) == (b * (255 - a) + f * a) \div 255

\* The slice sticker[y1:y2, x1:x2] has the shape of the canvas region.
SlicesAgree(st, pl) ==
    /\ Min2(pl.sticker_x2, st.w) - pl.sticker_x1 = pl.roi_x2 - pl.roi_x1
    /\ Min2(pl.sticker_y2, st.h) - pl.sticker_y1 = pl.roi_y2 - pl.roi_y1

\* Lines 159-183: the canvas after the region has been blended (4 channels)
\* or overwritten (3 channels) and stored back.
Composite(cv, st, pl) ==
    [cv EXCEPT !.px = [c \in Coords(cv.w, cv.h) |->
        IF /\ c[1] >= pl.roi_x1 /\ c[1] < pl.roi_x2
           /\ c[2] >= pl.roi_y1 /\ c[2] < pl.roi_y2
        THEN LET i == pl.sticker_x1 + (c[1] - pl.roi_x1)
                 j == pl.sticker_y1 + (c[2] - pl.roi_y1)
             IN  IF st.ch = 4
                 THEN Blend(cv.px[c], PatternColor(st.color, i, j),
                            PatternAlpha(st.alpha, i, j))
                 ELSE PatternColor(st.color, i, j)
        ELSE cv.px[c]]]

\* overlay_sticker_image(image, sticker_path, position, angle, scale).
\* color and alpha name the pixels a resize or a rotation produces.
overlay_sticker_image(cv, dc, p, k, scale10, color, alpha) ==
    IF ~p.given
    THEN [canvas |-> cv, status |-> "returned", ops |-> {}, draws |-> <<>>,
          place |-> NoPlace]
    ELSE IF dc.kind = "missing" \/ dc.kind = "unreadable"
    THEN DrawMarker(cv, p)
    ELSE IF ResizeRaises(dc.w, dc.h, scale10)
    THEN [canvas |-> cv, status |-> "raised", ops |-> {"resize"}, draws |-> <<>>,
          place |-> NoPlace]
    ELSE LET st == Rotated(Resized(dc, scale10, color, alpha), k, color, alpha)
             pl == Placement(st, p, cv)
             did == (IF scale10 # 10 THEN {"resize"} ELSE {})
                        \cup (IF Rotates(k) THEN {"rotate"} ELSE {})
         IN  IF pl.outside
             THEN [canvas |-> cv, status |-> "returned", ops |-> did,
                   draws |-> <<>>, place |-> pl]
             ELSE IF ~SlicesAgree(st, pl)
             THEN [canvas |-> cv, status |-> "raised", ops |-> did,
                   draws |-> <<>>, place |-> pl]
             ELSE [canvas |-> Composite(cv, st, pl), status |-> "returned",
                   ops |-> did \cup {IF st.ch = 4 THEN "blend" ELSE "overwrite"},
                   draws |-> <<>>, place |-> pl]

\* Lines 220-229 of annotate_image: the sticker at scale 0.3 when a sticker
\* path is given, else the marker.  (The axes, the outline and the text
\* that annotate_image also draws are not tracked in the pixels.)
annotate_sticker(cv, path, dc, p, k, color, alpha) ==
    IF ~p.given
    THEN [canvas |-> cv, status |-> "returned", ops |-> {}, draws |-> <<>>,
          place |-> NoPlace]
    ELSE IF path
         THEN overlay_sticker_image(cv, dc, p, k, AnnotateScale, color, alpha)
         ELSE DrawMarker(cv, p)

OverlayIdle ==
    /\ canvas = InitialCanvas(1, 1)
    /\ sticker = MissingDecal
    /\ stickerPath = FALSE
    /\ opos = NoPosition
    /\ oangle = 0
    /\ oscale = 10
    /\ ores = NoOverlay
    /\ opc = "idle"

----------------------------------------------------------------------------
(* Detection on one image *)

DetectIdle ==
    /\ contours = <<>>
    /\ det = NoDet
    /\ presult = NoResult
    /\ dpc = "idle"

InitDetect ==
    /\ contours \in ContourLists
    /\ det = NoDet
    /\ presult = NoResult
    /\ dpc = "image"
    /\ decalFile \in DecalFiles
    /\ files = <<>>
    /\ foldCase = FALSE
    /\ imageFiles = <<>>
    /\ idx = 0
    /\ outputs = {}
    /\ skipReports = 0
    /\ missReports = 0
    /\ bpc = "idle"
    /\ rect = NoRect
    /\ offset = 0
    /\ angle = NoAngle
    /\ pos = NoPos
    /\ gpc = "idle"
    /\ OverlayIdle

DetectBox ==
    /\ dpc = "image"
    /\ det' = detect_box(contours)
    /\ dpc' = "detected"
    /\ UNCHANGED <<contours, presult, gvars, bvars, ovars>>

ProcessImage ==
    /\ dpc = "image"
    /\ presult' = process_image([decodable |-> TRUE, contours |-> contours,
                                 upper |-> FALSE], decalFile, TRUE)
    /\ dpc' = "processed"
    /\ UNCHANGED <<contours, det, gvars, bvars, ovars>>

NextDetect == DetectBox \/ ProcessImage

----------------------------------------------------------------------------
(* process_directory: src/src/process_image.py, lines 321-343 *)

BatchIdle ==
    /\ files = <<>>
    /\ foldCase = FALSE
    /\ decalFile = [kind |-> "missing", w |-> 0, h |-> 0]
    /\ imageFiles = <<>>
    /\ idx = 0
    /\ outputs = {}
    /\ skipReports = 0
    /\ missReports = 0
    /\ bpc = "idle"

GeomIdle ==
    /\ rect = NoRect
    /\ offset = 0
    /\ angle = NoAngle
    /\ pos = NoPos
    /\ gpc = "idle"

\* The files of the directory that carry an image extension.  What an
\* undecodable file holds does not matter.
BatchContourLists ==
    { <<>>, <<[area |-> 500, nv |-> 3]>>, <<[area |-> 2 * MinArea, nv |-> 4]>> }

BatchFiles ==
    [decodable : {TRUE}, contours : BatchContourLists, upper : BOOLEAN]
        \cup [decodable : {FALSE}, contours : {<<>>}, upper : BOOLEAN]

\* Lines 331-334 for one extension: glob("*.ext") then glob("*.EXT"), each
\* in directory order.  Where glob matches case-insensitively both patterns
\* match every file.
Glob(fs, fold) ==
    LET all == [i \in 1..Len(fs) |-> i]
        lower == SelectSeq(all, LAMBDA i : ~fs[i].upper)
        upper == SelectSeq(all, LAMBDA i : fs[i].upper)
    IN  IF fold THEN all \o all ELSE lower \o upper

InitBatch ==
    /\ files \in SeqsUpTo(BatchFiles, MaxFiles)
    /\ foldCase \in BOOLEAN
    /\ decalFile \in DecalFiles
    /\ imageFiles = <<>>
    /\ idx = 0
    /\ outputs = {}
    /\ skipReports = 0
    /\ missReports = 0
    /\ bpc = "start"
    /\ DetectIdle
    /\ GeomIdle
    /\ OverlayIdle

\* Lines 329-340: collect image_files; return when there is none.
GlobFiles ==
    /\ bpc = "start"
    /\ imageFiles' = Glob(files, foldCase)
    /\ idx' = 1
    /\ bpc' = IF Glob(files, foldCase) = <<>> THEN "done" ELSE "loop"
    /\ UNCHANGED <<files, foldCase, decalFile, outputs, skipReports, missReports,
                   gvars, dvars, ovars>>

\* Lines 342-343: one iteration of the loop.  An exception of process_image
\* is not caught and ends process_directory.
ProcessNext ==
    /\ bpc = "loop"
    /\ LET r == process_image(files[imageFiles[idx]], decalFile, TRUE)
       IN  /\ outputs' = IF r.written THEN outputs \cup {imageFiles[idx]} ELSE outputs
           /\ skipReports' = skipReports + (IF r.report = "unreadable" THEN 1 ELSE 0)
           /\ missReports' = missReports + (IF r.report = "nobox" THEN 1 ELSE 0)
           /\ bpc' = IF r.kind = "raised"
                     THEN "raised"
                     ELSE IF idx = Len(imageFiles) THEN "done" ELSE "loop"
    /\ idx' = idx + 1
    /\ UNCHANGED <<files, foldCase, decalFile, imageFiles, gvars, dvars, ovars>>

NextBatch == GlobFiles \/ ProcessNext

----------------------------------------------------------------------------
(* The geometry stage of process_image: orientation, then position *)

OffsetPercents == {3, 5, 10, 25, 120}

InitGeom ==
    /\ rect \in Rects \cup {NoRect}
    /\ offset \in OffsetPercents
    /\ angle = NoAngle
    /\ pos = NoPos
    /\ gpc = "rect"
    /\ DetectIdle
    /\ BatchIdle
    /\ OverlayIdle

CalculateOrientation ==
    /\ gpc = "rect"
    /\ angle' = calculate_orientation(rect)
    /\ gpc' = "oriented"
    /\ UNCHANGED <<rect, offset, pos, dvars, bvars, ovars>>

CalculateStickerPosition ==
    /\ gpc = "oriented"
    /\ pos' = calculate_sticker_position(rect, offset)
    /\ gpc' = "placed"
    /\ UNCHANGED <<rect, offset, angle, dvars, bvars, ovars>>

NextGeom == CalculateOrientation \/ CalculateStickerPosition

\* The compositing stage: one call on one canvas.
InitOverlay ==
    /\ \E w \in 1..MaxCanvas, h \in 1..MaxCanvas : canvas = InitialCanvas(w, h)
    /\ sticker \in Decals
    /\ stickerPath \in BOOLEAN
    /\ opos \in Positions
    /\ oangle \in OverlayAngles
    /\ oscale \in OverlayScales
    /\ stickerPath \/ oscale = 10
    /\ ores = NoOverlay
    /\ opc = "ready"
    /\ GeomIdle
    /\ DetectIdle
    /\ BatchIdle

\* A call of overlay_sticker_image on the canvas.
OverlayStickerImage ==
    /\ opc = "ready"
    /\ stickerPath
    /\ \E color \in ColorPatterns, alpha \in AlphaPatterns :
          LET r == overlay_sticker_image(canvas, sticker, opos, oangle, oscale, color, alpha)
          IN  /\ canvas' = r.canvas
              /\ ores' = [status |-> r.status, ops |-> r.ops, draws |-> r.draws,
                          place |-> r.place]
    /\ opc' = "done"
    /\ UNCHANGED <<sticker, stickerPath, opos, oangle, oscale, gvars, dvars, bvars>>

\* The sticker step of annotate_image on the canvas.
AnnotateImage ==
    /\ opc = "ready"
    /\ oscale = 10
    /\ \E color \in ColorPatterns, alpha \in AlphaPatterns :
          LET r == annotate_sticker(canvas, stickerPath, sticker, opos, oangle, color, alpha)
          IN  /\ canvas' = r.canvas
              /\ ores' = [status |-> r.status, ops |-> r.ops, draws |-> r.draws,
                          place |-> r.place]
    /\ opc' = "annotated"
    /\ UNCHANGED <<sticker, stickerPath, opos, oangle, oscale, gvars, dvars, bvars>>

NextOverlay == OverlayStickerImage \/ AnnotateImage

vars == <<gvars, dvars, bvars, ovars>>

SpecGeom == InitGeom /\ [][NextGeom]_vars

SpecDetect == InitDetect /\ [][NextDetect]_vars

SpecBatch == InitBatch /\ [][NextBatch]_vars

SpecOverlay == InitOverlay /\ [][NextOverlay]_vars

----------------------------------------------------------------------------
(* Properties of the geometry stage *)

Placed == gpc = "placed" /\ rect # NoRect

PosPoint == <<pos.x, pos.y>>

\* C1: for every non-absent rectangle the returned position passes the
\* point-in-polygon test against the integer corner polygon (result >= 0),
\* whichever return path produced it.
C1_PositionPassesPolygonTest ==
    Placed => pointPolygonTest(get_box_corners(rect), PosPoint) >= 0

\* C2: for every non-absent rectangle, whatever its raw fitted angle and its
\* corners, calculate_orientation returns a value in [0, 90].
C2_OrientationInRange ==
    (gpc # "rect" /\ rect # NoRect) => (angle.kind # "none" /\ angle.deg \in 0..90)

C2_Witness ==
    /\ gpc = "oriented"
    /\ rect # NoRect
    /\ AngleTable[rect.ang].deg < 0
    /\ angle.kind = "corners"
    /\ angle.deg \in 1..89

\* The candidate of the claim: center + r_k * (anchor_corner - center), each
\* coordinate truncated to an integer pixel, r_k the k-th of the 30 ratios
\* from offset_percent to 0.05.
ClaimAnchor(r) ==
    LET box == get_box_corners(r)
    IN  box[CHOOSE i \in 1..4 :
                /\ \A j \in 1..4 : box[i][2] <= box[j][2]
                /\ \A j \in 1..(i - 1) : box[j][2] > box[i][2]]

ClaimCandidate(r, p, k) ==
    LET c == get_box_center(r)
        a == ClaimAnchor(r)
        num == 29 * p + k * (5 - p)
    IN  <<Trunc(c[1] * 2900 + (a[1] - c[1]) * num, 2900),
          Trunc(c[2] * 2900 + (a[2] - c[2]) * num, 2900)>>

ClaimPasses(r, p, k) ==
    pointPolygonTest(get_box_corners(r), ClaimCandidate(r, p, k)) >= 0

\* C6: the result is the first candidate, in ratio-sequence order, whose
\* polygon test is non-negative; for the 80x80 square centred (100,100),
\* raw angle 0, offset 0.1, that is center + 0.1 * direction toward the
\* minimum-y corner (60,60), i.e. (96,96), and it tests non-negative.
C6_FirstPassingCandidate ==
    /\ (Placed /\ ClaimAnchor(rect) # get_box_center(rect)
            /\ \E k \in 0..29 : ClaimPasses(rect, offset, k))
          => \E k \in 0..29 :
                /\ ClaimPasses(rect, offset, k)
                /\ \A j \in 0..(k - 1) : ~ClaimPasses(rect, offset, j)
                /\ PosPoint = ClaimCandidate(rect, offset, k)
                /\ pos.path = "accepted"
    /\ (Placed /\ rect = ExampleSquare /\ offset = 10)
          => /\ ClaimAnchor(rect) = <<60, 60>>
             /\ PosPoint = <<96, 96>>
             /\ pointPolygonTest(get_box_corners(rect), PosPoint) >= 0

C6_Witness ==
    /\ Placed
    /\ pos.path = "accepted"
    /\ pos.tried > 1
    /\ PosPoint # get_box_center(rect)

\* The rectangle's own centre-to-corner distance (half its diagonal) is
\* below one pixel.
NearZeroSize(r) == r.w * r.w + r.h * r.h < 4 * SubPix * SubPix

\* C7 as stated: a rectangle of near-zero size, centre-to-corner magnitude
\* below 1 pixel, gets exactly its centre, with no candidate evaluated.
C7_NearZeroSizeGetsCenter ==
    (Placed /\ NearZeroSize(rect))
        => (PosPoint = get_box_center(rect) /\ pos.tried = 0)

\* C7 as amended: when the magnitude the code measures, between the
\* truncated integer centre and the truncated integer anchor corner, is
\* below 1 pixel (the two coincide), the result is exactly the truncated
\* centre and no candidate is evaluated.
C7_CoincidingAnchorGetsCenter ==
    (Placed /\ ClaimAnchor(rect) = get_box_center(rect))
        => (PosPoint = get_box_center(rect) /\ pos.tried = 0
            /\ pos.path = "degenerate")

C7_Witness ==
    /\ Placed
    /\ ClaimAnchor(rect) = get_box_center(rect)
    /\ rect.w > 0
    /\ rect.h > 0
    /\ pos.path = "degenerate"

----------------------------------------------------------------------------
(* Properties of detection *)

\* The acceptance test of the claims: a 4-vertex approximation and an area
\* strictly above 1000.
ClaimQualifies(c) == c.nv = 4 /\ c.area > 1000

SomeQualifies == \E i \in 1..Len(contours) : ClaimQualifies(contours[i])

\* Contour k comes no later than contour j in descending area order.
NotAfter(k, j) ==
    \/ contours[k].area > contours[j].area
    \/ (contours[k].area = contours[j].area /\ k <= j)

----------------------------------------------------------------------------
(* Properties of process_directory *)

\* N matching files, M of them undecodable, K decodable without a contour.
NFiles == Len(files)
MUnreadable == Cardinality({i \in 1..Len(files) : ~files[i].decodable})
KMissed ==
    Cardinality({i \in 1..Len(files) :
                    files[i].decodable /\ files[i].contours = <<>>})

VisitsPerFile == IF foldCase THEN 2 ELSE 1

----------------------------------------------------------------------------
(* Properties of the compositor *)

\* A call of overlay_sticker_image has returned or raised, on a sticker that
\* was loaded, for a position that was given.
Composited ==
    /\ opc = "done"
    /\ opos.given
    /\ sticker.kind = "image"

Untransformed == oscale = 10 /\ ~Rotates(oangle)

\* The rectangle the claims speak of: top-left = position - size // 2.
ClaimX1(sw) == opos.x - (sw \div 2)
ClaimY1(sh) == opos.y - (sh \div 2)

InClaimRect(c, sw, sh) ==
    /\ ClaimX1(sw) <= c[1] /\ c[1] < ClaimX1(sw) + sw
    /\ ClaimY1(sh) <= c[2] /\ c[2] < ClaimY1(sh) + sh

CanvasUnchanged == canvas = InitialCanvas(canvas.w, canvas.h)

\* C8: with no rotation and scale 1.0, a sticker whose alpha is 255
\* everywhere leaves, on every canvas pixel of the overlap region, the colour
\* of the sticker pixel lying over it, and a sticker whose alpha is 0
\* everywhere leaves every canvas pixel as it was before the call.
C8_OpaqueAndTransparent ==
    (Composited /\ Untransformed /\ sticker.ch = 4) =>
        /\ ores.status = "returned"
        /\ sticker.alpha = "opaque" =>
              \A c \in Coords(canvas.w, canvas.h) :
                  InClaimRect(c, sticker.w, sticker.h) =>
                      canvas.px[c] = PatternColor(sticker.color,
                                                  c[1] - ClaimX1(sticker.w),
                                                  c[2] - ClaimY1(sticker.h))
        /\ sticker.alpha = "clear" => CanvasUnchanged

\* An opaque sticker has been blended over some pixel and away from another.
C8_Witness ==
    /\ Composited /\ Untransformed /\ sticker.ch = 4
    /\ sticker.alpha = "opaque"
    /\ "blend" \in ores.ops
    /\ \E c \in Coords(canvas.w, canvas.h) :
          InClaimRect(c, sticker.w, sticker.h) /\ canvas.px[c] # InitialPixel(c[1], c[2])
    /\ \E c \in Coords(canvas.w, canvas.h) : ~InClaimRect(c, sticker.w, sticker.h)

\* The size of the sticker that is placed: after the resize and the rotation.
PlacedW == Rotated(Resized(sticker, oscale, "flat", "opaque"), oangle, "flat", "opaque").w
PlacedH == Rotated(Resized(sticker, oscale, "flat", "opaque"), oangle, "flat", "opaque").h

\* The placement rectangle has no pixel in common with the canvas.
Disjoint(sw, sh) ==
    \/ ClaimX1(sw) + sw <= 0
    \/ ClaimY1(sh) + sh <= 0
    \/ ClaimX1(sw) >= canvas.w
    \/ ClaimY1(sh) >= canvas.h

\* C9: the sticker is placed with its top-left corner at position - size // 2
\* (seen on the pixels of a sticker that hides what is under it), and when
\* its placement rectangle has no pixel in common with the canvas, a
\* rectangle that ends exactly at column 0 or row 0 included, the call
\* returns with every canvas pixel unchanged and without error.
C9_CentredAndOutsideUntouched ==
    (Composited /\ ~ResizeRaises(sticker.w, sticker.h, oscale)) =>
        /\ (Untransformed /\ (sticker.ch = 3 \/ sticker.alpha = "opaque")) =>
              \A c \in Coords(canvas.w, canvas.h) :
                  canvas.px[c] =
                      IF InClaimRect(c, sticker.w, sticker.h)
                      THEN PatternColor(sticker.color, c[1] - ClaimX1(sticker.w),
                                        c[2] - ClaimY1(sticker.h))
                      ELSE InitialPixel(c[1], c[2])
        /\ Disjoint(PlacedW, PlacedH) =>
              /\ ores.status = "returned"
              /\ CanvasUnchanged

\* The rectangle ends exactly at column 0 or row 0: the early return is not
\* taken and the call has gone through the blend on an empty region.
C9_Witness ==
    /\ Composited /\ ~ResizeRaises(sticker.w, sticker.h, oscale)
    /\ \/ ClaimX1(PlacedW) + PlacedW = 0
       \/ ClaimY1(PlacedH) + PlacedH = 0
    /\ ~ores.place.outside
    /\ ores.ops \cap {"blend", "overwrite"} # {}
    /\ ores.status = "returned"

\* The sticker could not be loaded, or annotate_image was given no path.
MarkerCase ==
    /\ opos.given
    /\ \/ opc = "done" /\ sticker.kind # "image"
       \/ opc = "annotated" /\ (~stickerPath \/ sticker.kind # "image")

\* The pixels a filled disc of radius 8 and a ring of radius 12, thickness
\* 2, centred at the position, cover.
ClaimMarked(c) ==
    LET d2 == (c[1] - opos.x) * (c[1] - opos.x) + (c[2] - opos.y) * (c[2] - opos.y)
    IN  d2 <= 64 \/ (121 <= d2 /\ d2 <= 169)

\* C10: when the sticker cannot be loaded and a position is given, the
\* compositor draws the fallback marker, a filled disc of radius 8 and a ring
\* of radius 12 centred at the position, returns the canvas, neither scales
\* nor rotates nor blends, and raises no error.
C10_FallbackMarker ==
    MarkerCase =>
        /\ ores.status = "returned"
        /\ Len(ores.draws) = 2
        /\ \A i \in 1..2 : /\ ores.draws[i].shape = "circle"
                           /\ ores.draws[i].x = opos.x
                           /\ ores.draws[i].y = opos.y
        /\ ores.draws[1].radius = 8 /\ ores.draws[1].thickness = -1
        /\ ores.draws[2].radius = 12 /\ ores.draws[2].thickness = 2
        /\ ores.ops \cap {"resize", "rotate", "blend", "overwrite"} = {}
        /\ \A c \in Coords(canvas.w, canvas.h) :
              canvas.px[c] = IF ClaimMarked(c) THEN 255 ELSE InitialPixel(c[1], c[2])

\* overlay_sticker_image has drawn the marker for an unreadable sticker file,
\* with a rotation and a scale asked for, and the marker covers one pixel of
\* the canvas and misses another.
C10_Witness ==
    /\ opc = "done" /\ opos.given /\ sticker.kind = "unreadable"
    /\ oscale # 10 /\ Rotates(oangle)
    /\ "marker" \in ores.ops
    /\ \E c \in Coords(canvas.w, canvas.h) : ClaimMarked(c)
    /\ \E c \in Coords(canvas.w, canvas.h) : ~ClaimMarked(c)

----------------------------------------------------------------------------
(* Properties of the orientation estimator *)

Oriented == gpc = "oriented" /\ rect # NoRect

\* The normalised angle of one edge vector, and of the longest edge of a
\* corner polygon.
EdgeAngle(v) == NormalizeEdgeAngle(ArcTan2Deg(v[2], v[1]))

OrientationOf(box) == EdgeAngle(LongestEdge(box))

Neg(v) == <<-v[1], -v[2]>>

\* The position, in the corner order, of the edge that max() selects, and
\* of the edge opposite to edge i.
LongestIdx(box) ==
    CHOOSE i \in 1..4 :
        /\ \A j \in 1..4 : NormSq(EdgeVec(box, j)) <= NormSq(EdgeVec(box, i))
        /\ \A j \in 1..(i - 1) : NormSq(EdgeVec(box, j)) < NormSq(EdgeVec(box, i))

Opp(i) == ((i + 1) % 4) + 1

\* The corner polygon walked in the other direction, and walked from
\* another corner.
Reversed(box) == [i \in 1..4 |-> box[5 - i]]

Shifted(box, k) == [i \in 1..4 |-> box[((i - 1 + k) % 4) + 1]]

\* v and -v normalise to the same angle, for every edge of the polygon.
AntiparallelSameAngle(box) ==
    \A i \in 1..4 : EdgeAngle(EdgeVec(box, i)) = EdgeAngle(Neg(EdgeVec(box, i)))

\* Opposite edges of the integer corner polygon are exactly antiparallel.
OppositeEdgesNegated(box) ==
    \A i \in 1..4 : EdgeVec(box, Opp(i)) = Neg(EdgeVec(box, i))

\* C11 as stated: the normalisation gives one angle for v and -v, so the
\* orientation is the same when the other long edge is selected and when
\* the corners are walked in the other direction.
C11_EdgeChoiceInvariant ==
    Oriented =>
        LET box == get_box_corners(rect)
        IN  /\ AntiparallelSameAngle(box)
            /\ EdgeAngle(EdgeVec(box, Opp(LongestIdx(box)))) = angle.deg
            /\ OrientationOf(Reversed(box)) = angle.deg

\* C11 as amended: the normalisation gives one angle for v and -v; the
\* orientation is the same when the other long edge is selected and when
\* the corners are walked in the other direction provided the opposite
\* edges of the integer corner polygon are exact negatives of each other,
\* which the independent truncation of the corners does not ensure.
C11_InvariantWhenEdgesNegated ==
    Oriented =>
        LET box == get_box_corners(rect)
        IN  /\ AntiparallelSameAngle(box)
            /\ OppositeEdgesNegated(box) =>
                  /\ EdgeAngle(EdgeVec(box, Opp(LongestIdx(box)))) = angle.deg
                  /\ OrientationOf(Reversed(box)) = angle.deg

\* A tilted rectangle with unequal sides whose selected edge has a negative
\* or an obtuse angle, so that the normalisation acts, and whose opposite
\* edges are exact negatives.
C11_Witness ==
    /\ Oriented
    /\ rect.w # rect.h
    /\ angle.deg \in 1..89
    /\ LET box == get_box_corners(rect)
           e == LongestEdge(box)
       IN  /\ OppositeEdgesNegated(box)
           /\ (ArcTan2Deg(e[2], e[1]) < 0 \/ ArcTan2Deg(e[2], e[1]) > 90)
           /\ NormSq(e) > 0

\* C12: for the axis-aligned 100x50 rectangle, raw angle 0, the orientation
\* is 0, and for the 50x100 rectangle it is 90, from whichever corner the
\* cyclic corner order starts.
C12_LongerSideExamples ==
    /\ (Oriented /\ rect = ExampleWide) =>
          /\ angle.deg = 0
          /\ \A k \in 1..3 : OrientationOf(Shifted(get_box_corners(rect), k)) = 0
    /\ (Oriented /\ rect = ExampleTall) =>
          /\ angle.deg = 90
          /\ \A k \in 1..3 : OrientationOf(Shifted(get_box_corners(rect), k)) = 90

\* The tall example has been measured: its longest edge is vertical and is
\* not the first edge of every corner order.
C12_Witness ==
    /\ Oriented
    /\ rect = ExampleTall
    /\ angle = [kind |-> "corners", deg |-> 90]
    /\ \E k \in 0..3 : LongestIdx(Shifted(get_box_corners(rect), k)) # 1

----------------------------------------------------------------------------
(* Properties of the candidate ratios *)

\* The ratio sequence runs from offset_percent (hundredths) to 0.05 in 30
\* values.
RatioEnds(p) ==
    /\ NumCandidates = 30
    /\ RatioNum(p, 0) * 100 = p * RatioDen
    /\ RatioNum(p, NumCandidates - 1) * 100 = 5 * RatioDen
    /\ \A i \in 0..(NumCandidates - 3) :
          RatioNum(p, i + 1) - RatioNum(p, i) = RatioNum(p, i + 2) - RatioNum(p, i + 1)

RatiosDescend(p) ==
    \A i \in 0..(NumCandidates - 2) : RatioNum(p, i + 1) <= RatioNum(p, i)

RatiosAscend(p) ==
    \A i \in 0..(NumCandidates - 2) : RatioNum(p, i + 1) > RatioNum(p, i)

Accepted == Placed /\ pos.path = "accepted"

\* The candidates tried before the accepted one have all failed the test.
EarlierFailed ==
    \A j \in 0..(pos.tried - 2) : ~ClaimPasses(rect, offset, j)

\* The squared distance from the centre c of the k-th candidate on the ray
\* from c toward the anchor corner a.
RayDistSq(c, a, p, k) ==
    LET num == 29 * p + k * (5 - p)
        x == Trunc(c[1] * 2900 + (a[1] - c[1]) * num, 2900) - c[1]
        y == Trunc(c[2] * 2900 + (a[2] - c[2]) * num, 2900) - c[2]
    IN  x * x + y * y

\* The squared distance of the result from the truncated centre.
ResultDistSq(c) == (pos.x - c[1]) * (pos.x - c[1]) + (pos.y - c[2]) * (pos.y - c[2])

\* No candidate that passes is farther from the centre than the result:
\* those tried earlier have failed, and none of the later ones, passing or
\* not, is farther.
FarthestPassing ==
    /\ EarlierFailed
    /\ LET c == get_box_center(rect)
           a == ClaimAnchor(rect)
           d == ResultDistSq(c)
       IN  \A j \in (pos.tried - 1)..(NumCandidates - 1) : RayDistSq(c, a, offset, j) <= d

\* No candidate that passes is nearer to the centre than the result.
NearestPassing ==
    /\ EarlierFailed
    /\ LET c == get_box_center(rect)
           a == ClaimAnchor(rect)
           d == ResultDistSq(c)
       IN  \A j \in (pos.tried - 1)..(NumCandidates - 1) : RayDistSq(c, a, offset, j) >= d

----------------------------------------------------------------------------
(* Properties of the clipping *)

\* The call went past the "outside" return with a sticker of size >= 1.
Clipped ==
    /\ Composited
    /\ ~ResizeRaises(sticker.w, sticker.h, oscale)
    /\ ~ores.place.outside

InRegion(c, pl) ==
    /\ pl.roi_x1 <= c[1] /\ c[1] < pl.roi_x2
    /\ pl.roi_y1 <= c[2] /\ c[2] < pl.roi_y2

\* What the blend or the overwrite leaves on a canvas pixel that sticker
\* pixel (i, j) is paired with.
PairedValue(c, i, j) ==
    IF sticker.ch = 4
    THEN Blend(InitialPixel(c[1], c[2]), PatternColor(sticker.color, i, j),
               PatternAlpha(sticker.alpha, i, j))
    ELSE PatternColor(sticker.color, i, j)

\* C14: whenever the "outside" return is not taken, the canvas region lies
\* within the canvas, the sticker sub-region lies within the sticker, the two
\* have the same width and height, canvas pixel (roi_x1 + i, roi_y1 + j) is
\* paired with sticker pixel (sticker_x1 + i, sticker_y1 + j), which is the
\* sticker pixel lying over it, and no canvas pixel outside the region is
\* written.
C14_ClippingInvariant ==
    Clipped =>
        LET pl == ores.place
        IN  /\ ores.status = "returned"
            /\ pl.sw >= 1 /\ pl.sh >= 1
            /\ pl.x1 = ClaimX1(pl.sw) /\ pl.y1 = ClaimY1(pl.sh)
            /\ 0 <= pl.roi_x1 /\ pl.roi_x1 <= pl.roi_x2 /\ pl.roi_x2 <= canvas.w
            /\ 0 <= pl.roi_y1 /\ pl.roi_y1 <= pl.roi_y2 /\ pl.roi_y2 <= canvas.h
            /\ 0 <= pl.sticker_x1 /\ pl.sticker_x1 <= pl.sticker_x2 /\ pl.sticker_x2 <= pl.sw
            /\ 0 <= pl.sticker_y1 /\ pl.sticker_y1 <= pl.sticker_y2 /\ pl.sticker_y2 <= pl.sh
            /\ pl.sticker_x2 - pl.sticker_x1 = pl.roi_x2 - pl.roi_x1
            /\ pl.sticker_y2 - pl.sticker_y1 = pl.roi_y2 - pl.roi_y1
            /\ pl.sticker_x1 = pl.roi_x1 - ClaimX1(pl.sw)
            /\ pl.sticker_y1 = pl.roi_y1 - ClaimY1(pl.sh)
            /\ \A c \in Coords(canvas.w, canvas.h) :
                  /\ ~InRegion(c, pl) => canvas.px[c] = InitialPixel(c[1], c[2])
                  /\ InRegion(c, pl) => InClaimRect(c, pl.sw, pl.sh)
                  /\ (InRegion(c, pl) /\ Untransformed) =>
                        canvas.px[c] = PairedValue(c, c[1] - ClaimX1(pl.sw),
                                                   c[2] - ClaimY1(pl.sh))

\* A sticker that overhangs the canvas on the left and on the right has been
\* blended on a canvas with more than one row, one of which it misses.
C14_Witness ==
    /\ Clipped
    /\ ores.status = "returned"
    /\ ores.place.x1 < 0
    /\ ores.place.x2 > canvas.w
    /\ ores.place.sticker_x1 > 0
    /\ ores.place.sticker_x2 < ores.place.sw
    /\ \E c \in Coords(canvas.w, canvas.h) : InRegion(c, ores.place)
    /\ \E c \in Coords(canvas.w, canvas.h) : ~InRegion(c, ores.place)

====
